---- MODULE Spec2Model ----
(***************************************************************************)
(* The authenticated request pipeline of the Hamsaya dashboard:            *)
(* lib/api-client (cookie credential store, axios request and response     *)
(* interceptors, silent refresh) and context/AuthContext (checkAuth,       *)
(* login, logout).                                                         *)
(*                                                                         *)
(* One step of the model is one task of the browser's event loop: a user   *)
(* event or the arrival of a network result, together with every promise   *)
(* continuation (microtask) that runs before the next task.                *)
(***************************************************************************)
EXTENDS Integers, Sequences, FiniteSets, TLC

\* ------------------------------------------------------------------ bounds
\* Number of requests the pages issue through apiClient in one behaviour.
MaxPageReqs == 1
\* Number of credential pairs the backend issues in one behaviour (pair 1 is
\* the pair an earlier visit may have left in the jar; the backend issues the
\* pairs 2 .. MaxPairs + 1).
MaxPairs == 1

\* How many list requests a list page issues in the behaviours explored.
MaxFetches == 3

\* How many posts the rows of a list page hold.
MaxPosts == 2

\* The largest total_pages the backend reports.
MaxTotalPages == 2

\* ------------------------------------------------------- credential store
TOKEN_KEY == "hamsaya_admin_token"
REFRESH_TOKEN_KEY == "hamsaya_admin_refresh_token"

\* Cookies.get of a key that is not set.
Undefined == [kind |-> "undefined", pair |-> 0]
\* tokens.access_token / tokens.refresh_token of the p-th pair the backend issued.
AccessTokenOf(p) == [kind |-> "access", pair |-> p]
RefreshTokenOf(p) == [kind |-> "refresh", pair |-> p]

\* JavaScript truthiness of a value read from the cookie jar.
Truthy(t) == t.kind # "undefined"

NoCookie == [value |-> Undefined, expires |-> 0]
EmptyJar == [k \in {TOKEN_KEY, REFRESH_TOKEN_KEY} |-> NoCookie]

CookiesGet(jar, key) == jar[key].value
CookiesSet(jar, key, t, days) == [jar EXCEPT ![key] = [value |-> t, expires |-> days]]
CookiesRemove(jar, key) == [jar EXCEPT ![key] = NoCookie]

getToken(jar) == CookiesGet(jar, TOKEN_KEY)
setToken(jar, t) == CookiesSet(jar, TOKEN_KEY, t, 7)
getRefreshToken(jar) == CookiesGet(jar, REFRESH_TOKEN_KEY)
\* Mutant of setRefreshToken: the refresh token is written under the key of
\* the access token.
setRefreshTokenSameKey(jar, t) == CookiesSet(jar, TOKEN_KEY, t, 7)
setRefreshToken(jar, t) == CookiesSet(jar, REFRESH_TOKEN_KEY, t, 7)
\* Mutant of removeTokens: the refresh cookie is left in the jar.
removeTokensAccessOnly(jar) == CookiesRemove(jar, TOKEN_KEY)
removeTokens(jar) == CookiesRemove(CookiesRemove(jar, TOKEN_KEY), REFRESH_TOKEN_KEY)

\* The jar after this program stored the p-th pair.
JarOf(p) == setRefreshToken(setToken(EmptyJar, AccessTokenOf(p)), RefreshTokenOf(p))

\* ----------------------------------------------------------- the requests
PageReqs == {<<"page", i>> : i \in 1..MaxPageReqs}
CheckAuthReq == <<"checkAuth", 0>>
LoginPostReq == <<"loginPost", 0>>
LoginMeReq == <<"loginMe", 0>>
Reqs == PageReqs \cup {CheckAuthReq, LoginPostReq, LoginMeReq}
Owner(r) == r[1]

\* What the network can answer to a dispatch of apiClient.
DispatchOutcomes == {"ok", "okFalse", "http401", "http500", "network", "timeout"}
\* What the network can answer to POST /auth/refresh on the bare axios.
RefreshOutcomes == {"ok", "notSuccess", "noTokens", "noData", "http401", "network"}

\* error.response?.status (0: no response was received).
Status(o) ==
    CASE o \in {"ok", "okFalse", "notSuccess", "noTokens", "noData"} -> 200
      [] o = "http401" -> 401
      [] o = "http500" -> 500
      [] OTHER -> 0
\* axios resolves on a 2xx status and rejects otherwise.
Resolves(o) == Status(o) >= 200 /\ Status(o) < 300
\* response.data.success && response.data.data
BodySuccess(o) == o = "ok"

NoHeader == [scheme |-> "none", token |-> Undefined]
Bearer(t) == [scheme |-> "Bearer", token |-> t]

Pending == [kind |-> "pending", call |-> "none", attempt |-> 0, outcome |-> "none"]
Response(n, o) == [kind |-> "response", call |-> "dispatch", attempt |-> n, outcome |-> o]
DispatchError(n, o) == [kind |-> "error", call |-> "dispatch", attempt |-> n, outcome |-> o]
RefreshError(o) == [kind |-> "error", call |-> "refresh", attempt |-> 0, outcome |-> o]

\* A request that has not been issued.  Authorization and XRetry are the
\* headers of its config; carried is the Authorization header of the dispatch
\* that is on the wire; refreshBody is the refresh_token of the refresh call
\* that is on the wire; tokens is the pair in the body of the answer the
\* handler is reading; error is the `error` the rejected handler was called
\* with; result is what the caller's promise settled with.  dispatches and
\* refreshes count the calls made for the request, refreshOutcome is how its
\* refresh ended, redirected whether its handler assigned window.location.
NewRequest ==
    [pc |-> "initial", Authorization |-> NoHeader, XRetry |-> FALSE,
     carried |-> NoHeader, dispatches |-> 0,
     refreshes |-> 0, refreshBody |-> Undefined, refreshOutcome |-> "none",
     tokens |-> 0, redirected |-> FALSE, error |-> Pending, result |-> Pending]

\* A request that has settled: its config and its promise are garbage.
Settled == [NewRequest EXCEPT !.pc = "done"]

\* What is remembered, for one task, of the request that settled in it.
Summary(rec) == [rec EXCEPT !.Authorization = NoHeader, !.tokens = 0]

\* The event that started the latest task of the event loop.
NoEvent == [call |-> "none", id |-> <<"none", 0>>, outcome |-> "none"]
Event(c, r, o) == [call |-> c, id |-> r, outcome |-> o]

\* No function of the library has been called directly.  (arg: the argument
\* of the call; held: what the callee has besides it, the two slots of the jar
\* for a call of the store, the fallback string for a catch block; value:
\* what the call returned.)
NoCall == [fn |-> "none", arg |-> Undefined, held |-> Undefined, value |-> Undefined]

\* CategoriesPage after useState: loading, no call made, nothing shown.
CategoriesMounted ==
    [pc |-> "idle", caller |-> "none", Authorization |-> NoHeader,
     loading |-> TRUE, loaded |-> FALSE, alert |-> "none"]

\* A query of a list page: the tab, the page number and the search term that
\* fetchPosts puts in the URL.
Query(tab, page, term) == [tab |-> tab, page |-> page, term |-> term]
NoQuery == Query("none", 0, "")

\* PostsPage after useState: tab 'all', page 1 of 1, no search term, loading,
\* no rows, no post being updated (0 stands for null), nothing in flight.
\* (issued, latest, latestOk, shown: how many list requests were issued, the
\* query of the latest of them, whether its response has arrived with data,
\* and the query whose response the page shows.)
ListMounted ==
    [pc |-> "mount", activeTab |-> "all", page |-> 1, totalPages |-> 1,
     searchTerm |-> "", loading |-> TRUE, shown |-> NoQuery, updatingPostId |-> 0,
     inflight |-> {}, updates |-> {}, issued |-> 0, latest |-> NoQuery,
     latestOk |-> FALSE]

\* cookies, user, loading, location: the cookie jar, the state of
\* AuthProvider and the address of the page; req: the requests in the
\* pipeline; authPc, loginPc: where checkAuth and login are; nextPair: the
\* next pair the backend issues; last: the event of the latest task;
\* settled: the summary of the request whose promise settled in the latest
\* task (NewRequest when none did); ret: the latest direct call of a function
\* of the library (the store, the message helpers) with what it returned;
\* categories: the state of CategoriesPage and of its fetch call; list: the
\* state of a list page (PostsPage) and of the requests it has in flight.
VARIABLES cookies, nextPair, req, user, loading, location, authPc, loginPc, last, settled,
          ret, categories, list

vars == <<cookies, nextPair, req, user, loading, location, authPc, loginPc, last, settled,
          ret, categories, list>>

\* The whole state as one value, so that the handlers, which run several
\* statements in one task, can be written as functions from state to state.
World ==
    [cookies |-> cookies, nextPair |-> nextPair, req |-> req, user |-> user,
     loading |-> loading, location |-> location, authPc |-> authPc,
     loginPc |-> loginPc, settled |-> NewRequest]

\* The task that event e started ends in state w.
Becomes(e, w) ==
    /\ last' = e
    /\ \E x \in {w} :
        /\ cookies' = x.cookies
        /\ nextPair' = x.nextPair
        /\ req' = x.req
        /\ user' = x.user
        /\ loading' = x.loading
        /\ location' = x.location
        /\ authPc' = x.authPc
        /\ loginPc' = x.loginPc
        /\ settled' = x.settled
    /\ UNCHANGED <<ret, categories, list>>

\* ------------------------------------------------------ the axios pipeline
\* The refresh call is axios.post, not apiClient.post: its result does not
\* pass through the interceptors of apiClient.
\* (RefreshViaApiClient is the mutant that sends it with apiClient.post.)
RefreshViaApiClient == TRUE
RefreshViaInterceptors == FALSE

\* The promise apiClient returned to its caller settles with res.
settle(w, r, res) ==
    [w EXCEPT !.req[r].pc = "done", !.req[r].result = res]

\* Mutants of the request interceptor: one never attaches the token, one
\* rejects a request issued without a stored token.
requestInterceptorNoAttach(w, r) == w
requestInterceptorRequireToken(w, r) ==
    LET token == getToken(w.cookies)
    IN  IF Truthy(token)
        THEN [w EXCEPT !.req[r].Authorization = Bearer(token)]
        ELSE settle(w, r, [kind |-> "error", call |-> "interceptor", attempt |-> 0,
                           outcome |-> "noToken"])

\* apiClient.interceptors.request.use: attach the stored access token.
requestInterceptor(w, r) ==
    LET token == getToken(w.cookies)
    IN  IF Truthy(token)
        THEN [w EXCEPT !.req[r].Authorization = Bearer(token)]
        ELSE w

\* The adapter puts the request on the wire with the headers it has now.
send(w, r) ==
    [w EXCEPT !.req[r].pc = "sent",
              !.req[r].dispatches = @ + 1,
              !.req[r].carried = w.req[r].Authorization]

\* apiClient(config): request interceptor, then the adapter (axios skips the
\* adapter when an interceptor rejects).
apiClientRequest(w, r) ==
    LET w1 == requestInterceptor(w, r)
    IN  IF w1.req[r].pc = "done" THEN w1 ELSE send(w1, r)

\* removeTokens(); window.location.href = '/login'
sessionReset(w, r) ==
    [w EXCEPT !.cookies = removeTokens(w.cookies),
              !.location = "/login",
              !.req[r].redirected = TRUE]

\* Mutant of the rejected handler: every failed response starts a refresh.
onRejectedAnyStatus(w, r, error) ==
    IF Status(error.outcome) >= 400 /\ ~w.req[r].XRetry /\ Truthy(getRefreshToken(w.cookies))
    THEN [w EXCEPT !.req[r].pc = "refreshing",
                   !.req[r].error = error,
                   !.req[r].refreshes = @ + 1,
                   !.req[r].refreshBody = getRefreshToken(w.cookies)]
    ELSE settle(w, r, error)

\* Mutant of the rejected handler: the X-Retry mark is not looked at.
onRejectedIgnoresRetryMark(w, r, error) ==
    IF Status(error.outcome) = 401
    THEN LET refreshToken == getRefreshToken(w.cookies)
         IN  IF Truthy(refreshToken)
             THEN [w EXCEPT !.req[r].pc = "refreshing",
                            !.req[r].error = error,
                            !.req[r].refreshes = @ + 1,
                            !.req[r].refreshBody = refreshToken]
             ELSE settle([sessionReset(w, r) EXCEPT !.req[r].refreshOutcome = "absent"],
                         r, error)
    ELSE settle(w, r, error)

\* Mutant of the rejected handler: a 401 of the retried request resets the
\* session.
onRejectedResetsOnRetried401(w, r, error) ==
    IF Status(error.outcome) = 401
    THEN IF w.req[r].XRetry
         THEN settle(sessionReset(w, r), r, error)
         ELSE LET refreshToken == getRefreshToken(w.cookies)
              IN  IF Truthy(refreshToken)
                  THEN [w EXCEPT !.req[r].pc = "refreshing",
                                 !.req[r].error = error,
                                 !.req[r].refreshes = @ + 1,
                                 !.req[r].refreshBody = refreshToken]
                  ELSE settle([sessionReset(w, r) EXCEPT !.req[r].refreshOutcome = "absent"],
                              r, error)
    ELSE settle(w, r, error)

\* Mutant of the rejected handler: a 401 of the login request is not refreshed.
onRejectedSkipsLogin(w, r, error) ==
    IF Status(error.outcome) = 401 /\ ~w.req[r].XRetry /\ Owner(r) # "loginPost"
    THEN LET refreshToken == getRefreshToken(w.cookies)
         IN  IF Truthy(refreshToken)
             THEN [w EXCEPT !.req[r].pc = "refreshing",
                            !.req[r].error = error,
                            !.req[r].refreshes = @ + 1,
                            !.req[r].refreshBody = refreshToken]
             ELSE settle([sessionReset(w, r) EXCEPT !.req[r].refreshOutcome = "absent"],
                         r, error)
    ELSE settle(w, r, error)

\* apiClient.interceptors.response.use, rejected handler, up to the await
\* of the refresh call.
onRejected(w, r, error) ==
    IF Status(error.outcome) = 401 /\ ~w.req[r].XRetry
    THEN LET refreshToken == getRefreshToken(w.cookies)
         IN  IF Truthy(refreshToken)
             THEN [w EXCEPT !.req[r].pc = "refreshing",
                            !.req[r].error = error,
                            !.req[r].refreshes = @ + 1,
                            !.req[r].refreshBody = refreshToken]
             ELSE settle([sessionReset(w, r) EXCEPT !.req[r].refreshOutcome = "absent"],
                         r, error)
    ELSE settle(w, r, error)

\* Mutant of the response interceptor: the redispatch is awaited but its
\* outcome is dropped, and the first 401 is rejected.
responseInterceptorDropsRetry(w, r, o) ==
    IF w.req[r].XRetry
    THEN settle(w, r, w.req[r].error)
    ELSE IF Resolves(o)
         THEN settle(w, r, Response(w.req[r].dispatches, o))
         ELSE onRejected(w, r, DispatchError(w.req[r].dispatches, o))

\* Mutant of the response interceptor: a failure other than a 401 is
\* turned into a resolved promise.
responseInterceptorSwallows(w, r, o) ==
    IF Resolves(o) \/ Status(o) # 401
    THEN settle(w, r, Response(w.req[r].dispatches, o))
    ELSE onRejected(w, r, DispatchError(w.req[r].dispatches, o))

\* apiClient.interceptors.response.use on the result o of a dispatch.
responseInterceptor(w, r, o) ==
    IF Resolves(o)
    THEN settle(w, r, Response(w.req[r].dispatches, o))
    ELSE onRejected(w, r, DispatchError(w.req[r].dispatches, o))

\* Mutant of storeRefreshed: only the access token is stored.
storeRefreshedAccessOnly(w, p) ==
    [w EXCEPT !.cookies = setToken(w.cookies, AccessTokenOf(p))]

\* setToken(access_token); setRefreshToken(newRefreshToken)
storeRefreshed(w, p) ==
    LET w1 == [w EXCEPT !.cookies = setToken(w.cookies, AccessTokenOf(p))]
    IN  [w1 EXCEPT !.cookies = setRefreshToken(w1.cookies, RefreshTokenOf(p))]

\* Mutant of markRetried: the X-Retry header is not set.
markRetriedNoMark(w, r, p) ==
    [w EXCEPT !.req[r].Authorization = Bearer(AccessTokenOf(p)),
              !.req[r].error = Pending,
              !.req[r].tokens = 0]

\* originalRequest.headers.Authorization = ...; originalRequest.headers['X-Retry'] = 'true'
\* (the handler returns after these lines: its `error` and the response of
\* the refresh are no longer held)
markRetried(w, r, p) ==
    [w EXCEPT !.req[r].Authorization = Bearer(AccessTokenOf(p)),
              !.req[r].XRetry = TRUE,
              !.req[r].error = Pending,
              !.req[r].tokens = 0]

\* Mutants of afterRefresh: one resets the session on every failed refresh
\* and rejects with the first 401, one leaves the caller's promise pending
\* for ever when the body is not a success.
afterRefreshRejectsOriginal(w, r, o) ==
    IF o = "ok"
    THEN apiClientRequest(markRetried(storeRefreshed(w, w.req[r].tokens), r, w.req[r].tokens), r)
    ELSE settle(sessionReset(w, r), r, w.req[r].error)
afterRefreshNeverSettles(w, r, o) ==
    IF Resolves(o) /\ o # "noData"
    THEN IF o = "ok"
         THEN apiClientRequest(markRetried(storeRefreshed(w, w.req[r].tokens), r, w.req[r].tokens), r)
         ELSE [w EXCEPT !.req[r].pc = "suspended"]
    ELSE settle(sessionReset(w, r), r, RefreshError(o))

\* The rejected handler after `await axios.post(.../auth/refresh)`.  A 2xx
\* body with success but without data makes `response.data.data.tokens`
\* throw inside the try block.
afterRefresh(w, r, o) ==
    IF Resolves(o) /\ o # "noData"
    THEN IF o = "ok"
         THEN LET p == w.req[r].tokens
              IN  apiClientRequest(markRetried(storeRefreshed(w, p), r, p), r)
         ELSE settle(w, r, w.req[r].error)
    ELSE settle(sessionReset(w, r), r, RefreshError(o))

\* Mutant of refreshResult: a rejected refresh resets the session only when
\* the refresh token it sent is still the stored one.
refreshResultKeepsNewerPair(w, r, o) ==
    LET w1 == [w EXCEPT !.req[r].refreshOutcome = o, !.req[r].refreshBody = Undefined]
    IN  IF ~Resolves(o) /\ getRefreshToken(w.cookies) # w.req[r].refreshBody
        THEN settle(w1, r, RefreshError(o))
        ELSE afterRefresh(w1, r, o)

\* The result o of the refresh call reaches the code that awaits it.
refreshResult(w, r, o) ==
    LET w1 == [w EXCEPT !.req[r].refreshOutcome = o, !.req[r].refreshBody = Undefined]
    IN  IF RefreshViaInterceptors /\ Status(o) = 401 /\ Truthy(getRefreshToken(w.cookies))
        THEN [w1 EXCEPT !.req[r].refreshes = @ + 1,
                        !.req[r].refreshBody = getRefreshToken(w.cookies)]
        ELSE afterRefresh(w1, r, o)

\* ------------------------------------------------------------ AuthProvider
\* isAuthenticated: !!user
isAuthenticated(u) == u # "null"

\* Mutant of checkAuthResume: the user is set from any 2xx response, its
\* body not looked at.
checkAuthResumeAnyBody(w, res) ==
    LET body == IF res.kind = "response"
                THEN [w EXCEPT !.user = "user"]
                ELSE [w EXCEPT !.cookies = removeTokens(w.cookies)]
    IN  [body EXCEPT !.loading = FALSE, !.authPc = "done"]

\* Mutants of checkAuthResume: one keeps the tokens when the request failed
\* without a 401, one has no finally block on the path of the catch.
checkAuthResumeKeepsOnError(w, res) ==
    LET body == IF res.kind = "response" /\ BodySuccess(res.outcome)
                THEN [w EXCEPT !.user = "user"]
                ELSE IF res.kind = "error" /\ Status(res.outcome) # 401
                     THEN w
                     ELSE [w EXCEPT !.cookies = removeTokens(w.cookies)]
    IN  [body EXCEPT !.loading = FALSE, !.authPc = "done"]
checkAuthResumeNoFinally(w, res) ==
    IF res.kind = "response"
    THEN IF BodySuccess(res.outcome)
         THEN [w EXCEPT !.user = "user", !.loading = FALSE, !.authPc = "done"]
         ELSE [w EXCEPT !.cookies = removeTokens(w.cookies), !.loading = FALSE,
                        !.authPc = "done"]
    ELSE [w EXCEPT !.cookies = removeTokens(w.cookies), !.authPc = "done"]

\* checkAuth after `await apiClient.get('/users/me')`.
checkAuthResume(w, res) ==
    LET body == IF res.kind = "response" /\ BodySuccess(res.outcome)
                THEN [w EXCEPT !.user = "user"]
                ELSE [w EXCEPT !.cookies = removeTokens(w.cookies)]
    IN  [body EXCEPT !.loading = FALSE, !.authPc = "done"]

\* Mutant of loginMeResume: a failed /users/me rolls the login back.
loginMeResumeRollsBack(w, res) ==
    IF res.kind = "response"
    THEN LET w1 == IF BodySuccess(res.outcome) THEN [w EXCEPT !.user = "user"] ELSE w
         IN  [w1 EXCEPT !.location = "/", !.loginPc = "resolved"]
    ELSE [w EXCEPT !.cookies = removeTokens(w.cookies), !.loginPc = "rejected"]

\* login after `await apiClient.get('/users/me')`.
loginMeResume(w, res) ==
    IF res.kind = "response"
    THEN LET w1 == IF BodySuccess(res.outcome) THEN [w EXCEPT !.user = "user"] ELSE w
         IN  [w1 EXCEPT !.location = "/", !.loginPc = "resolved"]
    ELSE [w EXCEPT !.loginPc = "rejected"]

\* Mutant of loginPostResume: /users/me is dispatched before the tokens
\* of the response are stored.
loginPostResumeFetchFirst(w, res, p) ==
    IF res.kind = "response"
    THEN IF BodySuccess(res.outcome)
         THEN LET w0 == apiClientRequest([w EXCEPT !.loginPc = "fetchingMe"], LoginMeReq)
                  w1 == [w0 EXCEPT !.cookies = setToken(w0.cookies, AccessTokenOf(p))]
              IN  [w1 EXCEPT !.cookies = setRefreshToken(w1.cookies, RefreshTokenOf(p))]
         ELSE [w EXCEPT !.loginPc = "resolved"]
    ELSE [w EXCEPT !.loginPc = "rejected"]

\* login after `await apiClient.post('/admin/auth/login', credentials)`.
loginPostResume(w, res, p) ==
    IF res.kind = "response"
    THEN IF BodySuccess(res.outcome)
         THEN LET w1 == [w EXCEPT !.cookies = setToken(w.cookies, AccessTokenOf(p))]
                  w2 == [w1 EXCEPT !.cookies = setRefreshToken(w1.cookies, RefreshTokenOf(p))]
              IN  apiClientRequest([w2 EXCEPT !.loginPc = "fetchingMe"], LoginMeReq)
         ELSE [w EXCEPT !.loginPc = "resolved"]
    ELSE [w EXCEPT !.loginPc = "rejected"]

\* When the pipeline has settled the promise of r, the caller's continuation
\* runs in the same task; the request then leaves the pipeline.
resume(w, r) ==
    IF w.req[r].pc # "done"
    THEN w
    ELSE LET rec == w.req[r]
             w1 == [w EXCEPT !.req[r] = Settled, !.settled = Summary(rec)]
         IN  CASE Owner(r) = "checkAuth" -> checkAuthResume(w1, rec.result)
               [] Owner(r) = "loginPost" -> loginPostResume(w1, rec.result, rec.tokens)
               [] Owner(r) = "loginMe" -> loginMeResume(w1, rec.result)
               [] OTHER -> w1

\* The backend puts a newly issued pair in the body it answers to r.
issuePair(w, r) ==
    [w EXCEPT !.nextPair = @ + 1, !.req[r].tokens = w.nextPair]

\* ---------------------------------------------------------------- actions
\* The application has been loaded and nothing has run yet.
Mounted ==
    /\ nextPair = 2
    /\ req = [r \in Reqs |-> NewRequest]
    /\ user = "null"
    /\ loading = TRUE
    /\ location = "/"
    /\ authPc = "mount"
    /\ loginPc = "idle"
    /\ last = NoEvent
    /\ settled = NewRequest
    /\ ret = NoCall
    /\ categories = CategoriesMounted
    /\ list = ListMounted

Init ==
    /\ cookies \in {EmptyJar, JarOf(1)}
    /\ Mounted

\* useEffect(() => { checkAuth() }, []) up to the first await.
CheckAuth ==
    /\ authPc = "mount"
    /\ Becomes(Event("checkAuth", CheckAuthReq, "none"),
               IF Truthy(getToken(cookies))
               THEN apiClientRequest([World EXCEPT !.authPc = "waiting"], CheckAuthReq)
               ELSE [World EXCEPT !.loading = FALSE, !.authPc = "done"])

\* login(credentials) up to the first await.
Login ==
    /\ authPc # "mount"
    /\ loginPc = "idle"
    /\ Becomes(Event("login", LoginPostReq, "none"),
               apiClientRequest([World EXCEPT !.loginPc = "posting"], LoginPostReq))

\* logout()
Logout ==
    /\ authPc # "mount"
    /\ Becomes(Event("logout", <<"none", 0>>, "none"),
               [World EXCEPT !.cookies = removeTokens(cookies),
                             !.user = "null",
                             !.location = "/login"])

\* A page calls apiClient.get/put/post/delete.
PageRequest(r) ==
    /\ req[r].pc = "initial"
    /\ \A q \in PageReqs : q[2] < r[2] => req[q].pc # "initial"
    /\ Becomes(Event("page", r, "none"), apiClientRequest(World, r))

\* The network settles the dispatch of r with outcome o.
DispatchSettles(r, o) ==
    /\ req[r].pc = "sent"
    /\ LET carries == Owner(r) = "loginPost" /\ o = "ok"
           w0 == [World EXCEPT !.req[r].carried = NoHeader]
       IN  /\ carries => nextPair <= MaxPairs + 1
           /\ Becomes(Event("dispatch", r, o),
                      resume(responseInterceptor(IF carries THEN issuePair(w0, r) ELSE w0,
                                                 r, o), r))

\* The network settles the refresh call of r with outcome o.
RefreshSettles(r, o) ==
    /\ req[r].pc = "refreshing"
    /\ o = "ok" => nextPair <= MaxPairs + 1
    /\ Becomes(Event("refresh", r, o),
               resume(refreshResult(IF o = "ok" THEN issuePair(World, r) ELSE World, r, o), r))

Next ==
    \/ CheckAuth
    \/ Login
    \/ Logout
    \/ \E r \in PageReqs : PageRequest(r)
    \/ \E r \in Reqs, o \in DispatchOutcomes : DispatchSettles(r, o)
    \/ \E r \in Reqs, o \in RefreshOutcomes : RefreshSettles(r, o)

Spec == Init /\ [][Next]_vars

TypeOK ==
    /\ nextPair \in 2..(MaxPairs + 2)
    /\ user \in {"null", "user"}
    /\ loading \in BOOLEAN
    /\ location \in {"/", "/login"}
    /\ authPc \in {"mount", "waiting", "done"}
    /\ loginPc \in {"idle", "posting", "fetchingMe", "resolved", "rejected"}
    /\ \A r \in Reqs : req[r].pc \in {"initial", "sent", "refreshing", "done"}

\* A network call that is in flight settles.
NetworkSettles ==
    \/ \E r \in Reqs, o \in DispatchOutcomes : DispatchSettles(r, o)
    \/ \E r \in Reqs, o \in RefreshOutcomes : RefreshSettles(r, o)

\* The network does not leave every call that is in flight unsettled for ever.
Fairness == WF_vars(NetworkSettles)

FairSpec == Init /\ [][Next]_vars /\ Fairness

\* ------------------------------------------- the credential store, directly
\* The token values the callers of the store pass to it.
StoreTokens == {AccessTokenOf(p) : p \in 1..(MaxPairs + 1)} \cup
               {RefreshTokenOf(p) : p \in 1..(MaxPairs + 1)}

\* What getToken() and getRefreshToken() return for a jar.
ReadBack(jar) == <<getToken(jar), getRefreshToken(jar)>>

\* The pipeline and the pages stand still while the library is called.
LibraryCall == UNCHANGED <<nextPair, req, user, loading, location, authPc, loginPc, last,
                           settled, categories, list>>

\* The library call fn(arg) takes the jar to jar2; both slots are read
\* immediately before and immediately after it.
Called(fn, arg, jar2) ==
    /\ cookies' = jar2
    /\ ret' = [fn |-> fn, arg |-> arg, held |-> ReadBack(cookies), value |-> ReadBack(jar2)]
    /\ LibraryCall

StoreInit ==
    /\ cookies = EmptyJar
    /\ Mounted

\* setToken(a); getToken(); getRefreshToken()
SetToken(a) == Called("setToken", a, setToken(cookies, a))

\* setRefreshToken(r); getToken(); getRefreshToken()
SetRefreshToken(r) == Called("setRefreshToken", r, setRefreshToken(cookies, r))

\* setToken(a); setRefreshToken(r); getToken(); getRefreshToken()
SetBoth(a, r) == Called("setBoth", <<a, r>>, setRefreshToken(setToken(cookies, a), r))

\* removeTokens(); getToken(); getRefreshToken()
RemoveTokens == Called("removeTokens", Undefined, removeTokens(cookies))

StoreNext ==
    \/ \E a \in StoreTokens : SetToken(a)
    \/ \E r \in StoreTokens : SetRefreshToken(r)
    \/ \E a \in StoreTokens, r \in StoreTokens : SetBoth(a, r)
    \/ RemoveTokens

StoreSpec == StoreInit /\ [][StoreNext]_vars

\* ------------------------------------------------ the user-facing message
\* JavaScript values of the fields the message is taken from.
JsUndefined == [type |-> "undefined", text |-> ""]
Str(text) == [type |-> "string", text |-> text]
\* Truthiness of a string or undefined: '' and undefined are falsy.
JsTruthy(v) == v.type = "string" /\ v.text # ""
\* a || b
Or(a, b) == IF JsTruthy(a) THEN a ELSE b

\* ApiResponse.error and ApiResponse.message as a failed response carries them.
ErrorFields == {JsUndefined, Str(""), Str("email already registered")}
MessageFields == {JsUndefined, Str(""), Str("Validation failed")}

\* What a catch block can be handed: an AxiosError with a response (with or
\* without a parsed body), an AxiosError without response, an Error that
\* is not an AxiosError (the TypeError of the refresh handler), a value that
\* is not an Error.
Thrown ==
    {[kind |-> "axios", hasResponse |-> TRUE, hasData |-> TRUE, error |-> e, message |-> m,
      text |-> t] :
        e \in ErrorFields, m \in MessageFields,
        t \in {Str(""), Str("Request failed with status code 500")}}
    \cup {[kind |-> "axios", hasResponse |-> TRUE, hasData |-> FALSE, error |-> JsUndefined,
           message |-> JsUndefined, text |-> t] :
        t \in {Str(""), Str("Request failed with status code 401")}}
    \cup {[kind |-> "axios", hasResponse |-> FALSE, hasData |-> FALSE, error |-> JsUndefined,
           message |-> JsUndefined, text |-> t] :
        t \in {Str(""), Str("Network Error"), Str("timeout of 30000ms exceeded")}}
    \cup {[kind |-> "error", hasResponse |-> FALSE, hasData |-> FALSE, error |-> JsUndefined,
           message |-> JsUndefined, text |-> t] :
        t \in {Str(""), Str("Cannot read properties of null")}}
    \cup {[kind |-> "other", hasResponse |-> FALSE, hasData |-> FALSE, error |-> JsUndefined,
           message |-> JsUndefined, text |-> JsUndefined]}

\* error.response?.data?.error and error.response?.data?.message
ResponseDataError(error) ==
    IF error.hasResponse /\ error.hasData THEN error.error ELSE JsUndefined
ResponseDataMessage(error) ==
    IF error.hasResponse /\ error.hasData THEN error.message ELSE JsUndefined

\* handleApiError(error)
handleApiError(error) ==
    IF error.kind = "axios"
    THEN Or(Or(Or(ResponseDataError(error), ResponseDataMessage(error)), error.text),
            Str("An error occurred"))
    ELSE IF error.kind = "error"
         THEN error.text
         ELSE Str("An unexpected error occurred")

\* Mutant of CatchMessage: the message field is looked at before the error field.
CatchMessageMessageFirst(error, fallback) ==
    Or(Or(ResponseDataMessage(error), ResponseDataError(error)), fallback)

\* error.response?.data?.error || error.response?.data?.message || '<fallback>'
CatchMessage(error, fallback) ==
    Or(Or(ResponseDataError(error), ResponseDataMessage(error)), fallback)

\* The fallback strings of the catch blocks: login, and the pages.
LoginFallback == Str("Login failed")
PageFallbacks == {Str("Failed to load users"), Str("Failed to update user status"),
                  Str("Failed to load reports")}

MessageInit ==
    /\ cookies = EmptyJar
    /\ Mounted

\* A call rejects with error e and a catch block, or a caller of
\* handleApiError, receives it.
Throw(e) ==
    /\ ret.fn = "none"
    /\ ret' = [fn |-> "throw", arg |-> e, held |-> JsUndefined, value |-> JsUndefined]
    /\ UNCHANGED cookies
    /\ LibraryCall

\* toast.error(handleApiError(error))
HandleApiError ==
    /\ ret.fn = "throw"
    /\ ret' = [ret EXCEPT !.fn = "handleApiError", !.value = handleApiError(ret.arg)]
    /\ UNCHANGED cookies
    /\ LibraryCall

\* The catch block of AuthProvider.login.
LoginCatch ==
    /\ ret.fn = "throw"
    /\ ret' = [ret EXCEPT !.fn = "catch", !.held = LoginFallback,
                          !.value = CatchMessage(ret.arg, LoginFallback)]
    /\ UNCHANGED cookies
    /\ LibraryCall

\* The catch block of a page that calls apiClient.
PageCatch(fallback) ==
    /\ ret.fn = "throw"
    /\ ret' = [ret EXCEPT !.fn = "catch", !.held = fallback,
                          !.value = CatchMessage(ret.arg, fallback)]
    /\ UNCHANGED cookies
    /\ LibraryCall

MessageNext ==
    \/ \E e \in Thrown : Throw(e)
    \/ HandleApiError
    \/ LoginCatch
    \/ \E fallback \in PageFallbacks : PageCatch(fallback)

MessageSpec == MessageInit /\ [][MessageNext]_vars

\* ------------------------------------------------------------ CategoriesPage
\* localStorage.getItem of a key that is not set (nothing in the program
\* calls localStorage.setItem).
Null == [kind |-> "null", pair |-> 0]
localStorageGetItem(key) == Null

\* What the network can answer to fetch(), which has no timeout.
FetchOutcomes == DispatchOutcomes \ {"timeout"}

CategoriesCallers == {"fetchCategories", "handleAddCategory", "handleDeleteCategory"}

\* const token = localStorage.getItem('token'); fetch(url, {headers: {Authorization: `Bearer ${token}`}})
categoriesFetch(c, caller) ==
    [c EXCEPT !.pc = "sent", !.caller = caller,
              !.Authorization = Bearer(localStorageGetItem("token"))]

\* A task of CategoriesPage, started by event e, ends with the page in c.
CategoriesBecomes(e, c) ==
    /\ categories' = c
    /\ last' = e
    /\ settled' = NewRequest
    /\ UNCHANGED <<cookies, nextPair, req, user, loading, location, authPc, loginPc, ret,
                   list>>

\* useEffect(() => { fetchCategories() }, []) up to the await of fetch.
FetchCategories ==
    /\ categories.pc = "idle"
    /\ categories.loading
    /\ CategoriesBecomes(Event("fetchCategories", <<"categories", 0>>, "none"),
                         categoriesFetch(categories, "fetchCategories"))

\* handleAddCategory up to the await of fetch (the page shows its dialogs
\* only when loading is over).
HandleAddCategory ==
    /\ categories.pc = "idle"
    /\ ~categories.loading
    /\ CategoriesBecomes(Event("handleAddCategory", <<"categories", 0>>, "none"),
                         categoriesFetch([categories EXCEPT !.alert = "none"],
                                         "handleAddCategory"))

\* handleDeleteCategory, of a category the page lists, up to the await of fetch.
HandleDeleteCategory ==
    /\ categories.pc = "idle"
    /\ ~categories.loading
    /\ categories.loaded
    /\ CategoriesBecomes(Event("handleDeleteCategory", <<"categories", 0>>, "none"),
                         categoriesFetch([categories EXCEPT !.alert = "none"],
                                         "handleDeleteCategory"))

\* fetchCategories after `await fetch(...)`: !response.ok and a rejected
\* fetch go to the catch block (console.error), finally setLoading(false).
fetchCategoriesResume(c, o) ==
    [c EXCEPT !.pc = "idle", !.caller = "none", !.Authorization = NoHeader,
              !.loading = FALSE,
              !.loaded = IF Resolves(o) /\ BodySuccess(o) THEN TRUE ELSE @]

\* handleAddCategory / handleDeleteCategory after `await fetch(...)`:
\* response.ok leads to `await fetchCategories()`, anything else to alert().
handleCategoryResume(c, o) ==
    IF Resolves(o)
    THEN categoriesFetch(c, "fetchCategories")
    ELSE [c EXCEPT !.pc = "idle", !.Authorization = NoHeader,
                   !.alert = IF c.caller = "handleAddCategory"
                             THEN "Failed to add category"
                             ELSE "Failed to delete category",
                   !.caller = "none"]

\* The network settles the fetch call of CategoriesPage with outcome o.
FetchSettles(o) ==
    /\ categories.pc = "sent"
    /\ CategoriesBecomes(Event("fetch", <<"categories", 0>>, o),
                         IF categories.caller = "fetchCategories"
                         THEN fetchCategoriesResume(categories, o)
                         ELSE handleCategoryResume(categories, o))

\* CategoriesPage next to a page that calls apiClient, in a session that
\* checkAuth opened.
CategoriesNext ==
    \/ CheckAuth
    \/ \E r \in PageReqs : PageRequest(r)
    \/ \E r \in Reqs, o \in DispatchOutcomes : DispatchSettles(r, o)
    \/ \E r \in Reqs, o \in RefreshOutcomes : RefreshSettles(r, o)
    \/ FetchCategories
    \/ HandleAddCategory
    \/ HandleDeleteCategory
    \/ \E o \in FetchOutcomes : FetchSettles(o)

CategoriesSpec == Init /\ [][CategoriesNext]_vars

\* ------------------------------------------------------------ a list page
\* PostsPage; ReportsPage, UsersPage and UserManagement have the same state,
\* the same effect and the same handlers under other names.
Tabs == {"all", "SELL"}
Terms == {"", "a"}
Posts == 1..MaxPosts
ListOutcomes == {"data", "noData", "rejected"}
UpdateOutcomes == {"resolved", "rejected"}

\* The query that a render of the page closes over.
CurrentQuery(l) == Query(l.activeTab, l.page, l.searchTerm)

\* fetchPosts of the render that closed over query q, up to the await:
\* setLoading(true) and the GET of /admin/posts with q in the URL.
fetchPosts(l, q) ==
    [l EXCEPT !.loading = TRUE, !.issued = @ + 1,
              !.inflight = @ \cup {[seq |-> l.issued + 1, query |-> q]},
              !.latest = q, !.latestOk = FALSE]

\* useEffect(() => { fetchPosts() }, [activeTab, page, searchTerm]) after the
\* render that takes the page from before to after.
effect(before, after) ==
    IF CurrentQuery(after) # CurrentQuery(before)
    THEN fetchPosts(after, CurrentQuery(after))
    ELSE after

\* handleSearch: setPage(1), then fetchPosts() of the render that is on
\* screen, then the render and its effect.
handleSearch(l) == effect(l, fetchPosts([l EXCEPT !.page = 1], CurrentQuery(l)))

\* handleTabChange: setActiveTab(tab); setPage(1).
handleTabChange(l, tab) == effect(l, [l EXCEPT !.activeTab = tab, !.page = 1])

\* onChange of the search input: setSearchTerm(e.target.value).
setSearchTerm(l, v) == effect(l, [l EXCEPT !.searchTerm = v])

\* onClick of Previous and of Next: setPage(page - 1), setPage(page + 1).
setPage(l, p) == effect(l, [l EXCEPT !.page = p])

\* The table, with the status buttons and the pagination, is rendered when
\* loading is false; the pagination when totalPages > 1 too.
TableShown(l) == ~l.loading
PaginationShown(l) == TableShown(l) /\ l.totalPages > 1
PreviousDisabled(l) == l.page = 1
NextDisabled(l) == l.page = l.totalPages
StatusDisabled(l, post) == l.updatingPostId = post

\* fetchPosts after the await, for the request f that settled with outcome o
\* and total_pages tp: the rows and the totals are set when the body has
\* data, and loading ends in any case.
fetchPostsResume(l, f, o, tp) ==
    [l EXCEPT !.inflight = @ \ {f},
              !.loading = FALSE,
              !.shown = IF o = "data" THEN f.query ELSE @,
              !.totalPages = IF o = "data" THEN tp ELSE @,
              !.latestOk = IF o = "data" /\ f.seq = l.issued THEN TRUE ELSE @]

\* handleStatusUpdate(post) up to the await: setUpdatingPostId(post) and the
\* PUT; the handler keeps the fetchPosts of the render it was made in.
handleStatusUpdate(l, post) ==
    [l EXCEPT !.updatingPostId = post,
              !.updates = @ \cup {[id |-> post, closure |-> CurrentQuery(l)]}]

\* handleStatusUpdate after the await: fetchPosts() when the PUT resolved, a
\* toast when it was rejected, setUpdatingPostId(null) in any case.
handleStatusUpdateResume(l, u, o) ==
    [(IF o = "resolved" THEN fetchPosts(l, u.closure) ELSE l)
        EXCEPT !.updates = @ \ {u}, !.updatingPostId = 0]

\* A task of the list page ends with the page in l.
ListBecomes(l) ==
    /\ l.issued <= MaxFetches
    /\ list' = l
    /\ UNCHANGED <<cookies, nextPair, req, user, loading, location, authPc, loginPc, last,
                   settled, ret, categories>>

\* The effect of the first render.
ListMount ==
    /\ list.pc = "mount"
    /\ ListBecomes(fetchPosts([list EXCEPT !.pc = "ready"], CurrentQuery(list)))

HandleSearch ==
    /\ list.pc = "ready"
    /\ ListBecomes(handleSearch(list))

HandleTabChange(tab) ==
    /\ list.pc = "ready"
    /\ ListBecomes(handleTabChange(list, tab))

SetSearchTerm(v) ==
    /\ list.pc = "ready"
    /\ ListBecomes(setSearchTerm(list, v))

Previous ==
    /\ list.pc = "ready"
    /\ PaginationShown(list)
    /\ ~PreviousDisabled(list)
    /\ ListBecomes(setPage(list, list.page - 1))

\* (Next is not disabled when page is beyond totalPages; the pages explored
\* end one after MaxTotalPages.)
NextPage ==
    /\ list.pc = "ready"
    /\ PaginationShown(list)
    /\ ~NextDisabled(list)
    /\ list.page <= MaxTotalPages
    /\ ListBecomes(setPage(list, list.page + 1))

\* The network settles the list request f.
ListSettles(f, o, tp) ==
    /\ f \in list.inflight
    /\ ListBecomes(fetchPostsResume(list, f, o, tp))

\* A click of the status button of a post of the rows on screen, when no
\* update of that post is under way.
HandleStatusUpdate(post) ==
    /\ list.pc = "ready"
    /\ TableShown(list)
    /\ list.shown # NoQuery
    /\ ~StatusDisabled(list, post)
    /\ \A u \in list.updates : u.id # post
    /\ ListBecomes(handleStatusUpdate(list, post))

\* The network settles the status update u.
StatusUpdateSettles(u, o) ==
    /\ u \in list.updates
    /\ ListBecomes(handleStatusUpdateResume(list, u, o))

ListNext ==
    \/ ListMount
    \/ HandleSearch
    \/ \E tab \in Tabs : HandleTabChange(tab)
    \/ \E v \in Terms : SetSearchTerm(v)
    \/ Previous
    \/ NextPage
    \/ \E f \in list.inflight, o \in ListOutcomes, tp \in 1..MaxTotalPages :
            ListSettles(f, o, tp)
    \/ \E post \in Posts : HandleStatusUpdate(post)
    \/ \E u \in list.updates, o \in UpdateOutcomes : StatusUpdateSettles(u, o)

ListSpec == Init /\ [][ListNext]_vars

\* ================================================================ claims
\* What a dispatch that settles with outcome o as attempt n hands over.
Handed(n, o) == IF Resolves(o) THEN Response(n, o) ELSE DispatchError(n, o)

\* The latest task ended the refresh of a request in failure: the refresh
\* call was rejected (or its body made the handler throw), its body was not
\* a success, or no refresh token was stored when the first 401 arrived.
RefreshRejected == last.call = "refresh" /\ last.outcome \in {"http401", "network", "noData"}
RefreshNotSuccess == last.call = "refresh" /\ last.outcome \in {"notSuccess", "noTokens"}
RefreshAbsent == last.call = "dispatch" /\ settled.refreshOutcome = "absent"
StoreEmpty == getToken(cookies) = Undefined /\ getRefreshToken(cookies) = Undefined
InFlight(r) == req[r].pc \notin {"initial", "done"}

\* C1: a request whose first dispatch gets 401 and whose refresh succeeds is
\* redispatched exactly once, the redispatch carries the access token the
\* refresh issued, and a 401 of the redispatch starts neither a refresh nor
\* a dispatch: no request is dispatched more than twice.
C1_RedispatchedOnceWithNewToken ==
    /\ \A r \in Reqs :
        /\ req[r].dispatches <= 2
        /\ req[r].refreshOutcome = "ok" =>
            /\ req[r].pc = "sent"
            /\ req[r].dispatches = 2
            /\ req[r].refreshes = 1
            /\ req[r].carried.scheme = "Bearer"
            /\ req[r].carried.token.kind = "access"
            /\ req[r].carried.token.pair \in 2..(nextPair - 1)
    /\ (last.call = "refresh" /\ last.outcome = "ok") =>
        /\ req[last.id].refreshOutcome = "ok"
        /\ req[last.id].carried = Bearer(AccessTokenOf(nextPair - 1))
    /\ settled.dispatches <= 2
    /\ settled.refreshOutcome = "ok" =>
        /\ last.call = "dispatch"
        /\ settled.dispatches = 2
        /\ settled.refreshes = 1
        /\ req[last.id].pc = "done"

C1_Witness ==
    /\ last.call = "dispatch"
    /\ last.outcome = "http401"
    /\ settled.refreshOutcome = "ok"
    /\ settled.result = DispatchError(2, "http401")
    /\ ~InFlight(last.id)

\* C2 (as claimed): after a refresh that failed in any of its modes, both
\* token slots are empty and a navigation to /login has been issued.
C2_ResetOnEveryRefreshFailure ==
    (RefreshRejected \/ RefreshNotSuccess \/ RefreshAbsent) =>
        /\ StoreEmpty
        /\ location = "/login"
        /\ settled.redirected

C4_CallerGetsRetryOutcome ==
    settled.refreshOutcome = "ok" =>
        /\ last.call = "dispatch"
        /\ settled.pc = "done"
        /\ settled.result = Handed(2, last.outcome)
        /\ settled.result # DispatchError(1, "http401")

C4_Witness ==
    /\ settled.refreshOutcome = "ok"
    /\ settled.result = Response(2, "ok")

\* C5: a dispatch made while an access token is stored carries
\* Authorization: Bearer <the token stored when the request interceptor
\* runs>, the redispatch after a refresh included.
C5_BearerIsStoredToken ==
    [][\A r \in Reqs :
        (req'[r].dispatches = req[r].dispatches + 1 /\ Truthy(getToken(cookies'))) =>
            /\ req'[r].pc = "sent"
            /\ req'[r].carried = Bearer(getToken(cookies'))
            /\ getToken(cookies').kind = "access"]_vars

C5_Witness ==
    \E r \in Reqs :
        /\ req[r].dispatches = 2
        /\ last.call = "refresh"
        /\ last.id = r
        /\ req[r].carried = Bearer(getToken(cookies))

\* C6: a request issued while no access token is stored is dispatched
\* without an Authorization header, and the pipeline raises no error.
C6_NoTokenNoHeader ==
    [][\A r \in Reqs :
        (req[r].pc = "initial" /\ req'[r].pc # "initial" /\ ~Truthy(getToken(cookies'))) =>
            /\ req'[r].pc = "sent"
            /\ req'[r].dispatches = 1
            /\ req'[r].carried = NoHeader
            /\ req'[r].Authorization = NoHeader
            /\ req'[r].result = Pending]_vars

C6_Witness ==
    \E r \in Reqs :
        /\ last.call \in {"page", "login"}
        /\ last.id = r
        /\ ~Truthy(getToken(cookies))
        /\ req[r].pc = "sent"
        /\ req[r].carried = NoHeader

\* C7: an outcome of a dispatch other than a 401 response is handed to the
\* caller as it is, and the pipeline does nothing else: no refresh call, no
\* redispatch, no navigation, no change to the stored tokens (for a request
\* of a page, whose caller is outside the model, nothing but the request
\* changes in the task).
C7_NonUnauthorizedPassesThrough ==
    [][\A r \in Reqs :
        (req[r].pc = "sent" /\ last'.call = "dispatch" /\ last'.id = r
            /\ last'.outcome # "http401") =>
            /\ req'[r].pc = "done"
            /\ settled'.result = Handed(req[r].dispatches, last'.outcome)
            /\ settled'.dispatches = req[r].dispatches
            /\ settled'.refreshes = req[r].refreshes
            /\ settled'.refreshOutcome = req[r].refreshOutcome
            /\ settled'.refreshBody = Undefined
            /\ ~settled'.redirected
            /\ \A q \in Reqs \ {r, LoginMeReq} : req'[q] = req[q]
            /\ Owner(r) = "page" =>
                /\ cookies' = cookies
                /\ location' = location
                /\ nextPair' = nextPair
                /\ user' = user
                /\ req'[LoginMeReq] = req[LoginMeReq]]_vars

C7_Witness ==
    /\ last.call = "dispatch"
    /\ Owner(last.id) = "page"
    /\ last.outcome = "timeout"
    /\ settled.result = DispatchError(1, "timeout")
    /\ Truthy(getRefreshToken(cookies))
    /\ location = "/"

\* C8: the refresh call does not pass through the interceptors: its failure
\* never starts another refresh, and a request causes at most one refresh
\* call.
C8_AtMostOneRefresh ==
    /\ \A r \in Reqs :
        /\ req[r].refreshes <= 1
        /\ req[r].pc = "refreshing" <=> req[r].refreshBody # Undefined
    /\ settled.refreshes <= 1
    /\ (last.call = "refresh" /\ last.outcome # "ok") =>
        /\ req[last.id].pc = "done"
        /\ settled.refreshes = 1

C8_Witness ==
    /\ last.call = "refresh"
    /\ last.outcome = "http401"
    /\ settled.refreshes = 1
    /\ req[last.id].pc = "done"

\* C9: when the network calls settle, every request that is in the pipeline
\* reaches DONE: from any state with a request in SENT or REFRESHING a state
\* is reached in which every request that was issued is DONE (a request
\* never leaves DONE, so each of them got there).
C9_EveryRequestSettles ==
    (\E r \in Reqs : InFlight(r)) ~> (\A r \in Reqs : ~InFlight(r))

C9_Witness ==
    /\ last.call = "dispatch"
    /\ settled.refreshOutcome = "ok"
    /\ settled.pc = "done"
    /\ \A r \in Reqs : ~InFlight(r)

\* C10: in every state the stored access token and the stored refresh token
\* are of the same issued pair, or both slots are empty.
C10_StoredPairIsOnePair ==
    \/ StoreEmpty
    \/ /\ getToken(cookies).kind = "access"
       /\ getRefreshToken(cookies).kind = "refresh"
       /\ getToken(cookies).pair = getRefreshToken(cookies).pair

C10_Witness ==
    /\ last.call = "refresh"
    /\ last.outcome = "ok"
    /\ cookies = JarOf(nextPair - 1)
    /\ loginPc = "posting"
    /\ \E q \in Reqs \ {last.id} :
        /\ req[q].pc = "refreshing"
        /\ req[q].refreshBody = RefreshTokenOf(1)

\* ---------------------------------------------------------------- C11..C15
\* The task that just ended was one of the operations the lifecycle of the
\* credential pair names: a login whose POST was answered with success, a
\* refresh that was answered with success, a logout, or a refresh that
\* failed (with no refresh token stored counted as a failed refresh).
LoginSucceeded(e) == e.call = "dispatch" /\ e.id = LoginPostReq /\ e.outcome = "ok"
RefreshSucceeded(e) == e.call = "refresh" /\ e.outcome = "ok"
LoggedOut(e) == e.call = "logout"
RefreshFailed(e, s) ==
    \/ e.call = "refresh" /\ e.outcome # "ok"
    \/ e.call = "dispatch" /\ s.refreshOutcome = "absent"

\* C11 (as claimed): the stored tokens change only in a task of a successful
\* login or a successful refresh (which write them) or of a logout or a
\* failed refresh (which delete them).
C11_OnlyLifecycleChangesStore ==
    [][cookies' # cookies =>
        \/ (LoginSucceeded(last') \/ RefreshSucceeded(last')) /\ Truthy(getToken(cookies'))
        \/ (LoggedOut(last') \/ RefreshFailed(last', settled')) /\ cookies' = EmptyJar]_vars

\* C12: a refresh call is issued for a request only by the 401 of its first
\* dispatch, once, with the refresh token stored at that moment: the refresh
\* calls never outnumber the requests whose first dispatch got a 401.
\* (That N of them are in flight at once with one refresh token is C12_Witness.)
C12_OneRefreshPerFirst401 ==
    [][\A r \in Reqs :
        req'[r].refreshes # req[r].refreshes =>
            \/ /\ req'[r].refreshes = 0
               /\ req'[r].pc = "done"
            \/ /\ req[r].refreshes = 0
               /\ req'[r].refreshes = 1
               /\ req[r].pc = "sent"
               /\ req[r].dispatches = 1
               /\ ~req[r].XRetry
               /\ last' = Event("dispatch", r, "http401")
               /\ req'[r].pc = "refreshing"
               /\ Truthy(getRefreshToken(cookies))
               /\ req'[r].refreshBody = getRefreshToken(cookies)]_vars

C12_Witness ==
    \E r \in Reqs, q \in Reqs :
        /\ r # q
        /\ req[r].pc = "refreshing"
        /\ req[q].pc = "refreshing"
        /\ req[r].refreshBody = req[q].refreshBody
        /\ req[r].refreshBody = getRefreshToken(cookies)
        /\ last = Event("dispatch", q, "http401")

\* C13: the caller's promise resolves only with the response of the latest
\* dispatch, which succeeded; a failed latest dispatch and a failed refresh
\* reject it; a resolved promise hides a failure only when the first
\* dispatch got 401, the refresh succeeded and the redispatch succeeded.
C13_NoErrorSwallowed ==
    /\ settled.pc = "done" =>
        /\ settled.result.kind \in {"response", "error"}
        /\ settled.result.kind = "response" <=>
            (last.call = "dispatch" /\ Resolves(last.outcome))
        /\ settled.result.kind = "response" =>
            /\ settled.result = Response(settled.dispatches, last.outcome)
            /\ settled.dispatches = 1 <=> settled.refreshes = 0
            /\ settled.dispatches = 2 <=> settled.refreshOutcome = "ok"
            /\ ~settled.redirected
        /\ (last.call = "dispatch" /\ ~Resolves(last.outcome)) =>
            settled.result = DispatchError(settled.dispatches, last.outcome)
        /\ last.call = "refresh" => settled.result.kind = "error"
    /\ (last.call = "dispatch" /\ last.outcome # "http401") => settled.pc = "done"
    /\ (last.call = "refresh" /\ last.outcome # "ok") => settled.pc = "done"

C13_Witness ==
    /\ settled.pc = "done"
    /\ settled.result = Response(2, "ok")
    /\ settled.refreshes = 1
    /\ Owner(last.id) = "page"

\* C14: in the task in which login() receives the success response, both
\* tokens of that response are stored, GET /users/me is dispatched once
\* carrying the access token of that response, and the POST is not sent
\* again: afterwards login only waits for /users/me.
C14_LoginStoresThenFetchesMe ==
    /\ LoginSucceeded(last) =>
        /\ cookies = JarOf(nextPair - 1)
        /\ loginPc = "fetchingMe"
        /\ req[LoginMeReq].pc = "sent"
        /\ req[LoginMeReq].dispatches = 1
        /\ req[LoginMeReq].carried = Bearer(AccessTokenOf(nextPair - 1))
        /\ req[LoginPostReq].pc = "done"
    /\ loginPc \in {"fetchingMe", "resolved", "rejected"} => req[LoginPostReq].pc = "done"
    /\ loginPc = "fetchingMe" <=> InFlight(LoginMeReq)
    /\ loginPc \in {"idle", "posting"} => req[LoginMeReq].pc = "initial"
    /\ (last = Event("dispatch", LoginMeReq, "ok")) =>
        /\ loginPc = "resolved"
        /\ user = "user"
        /\ location = "/"

C14_Witness ==
    /\ last = Event("dispatch", LoginMeReq, "ok")
    /\ settled.result = Response(1, "ok")
    /\ cookies = JarOf(nextPair - 1)
    /\ user = "user"

\* C15: logout() leaves both token slots empty and the user null, whatever
\* was stored before; a second logout changes nothing in the store.
C15_LogoutClearsAndIsIdempotent ==
    /\ LoggedOut(last) =>
        /\ StoreEmpty
        /\ user = "null"
        /\ location = "/login"
    /\ removeTokens(cookies) = EmptyJar
    /\ removeTokens(removeTokens(cookies)) = removeTokens(cookies)

C15_Witness ==
    /\ LoggedOut(last)
    /\ StoreEmpty
    /\ \E r \in Reqs : req[r].pc = "sent" /\ req[r].carried.scheme = "Bearer"

\* --------------------------------------------------------------------- C17
\* As far as a state shows it, the server has rejected the stored access
\* token: a request is waiting for the refresh its 401 started, or the
\* latest task rejected a caller with a 401.
Rejected401 ==
    \/ \E r \in Reqs : req[r].pc = "refreshing"
    \/ settled.result.kind = "error" /\ Status(settled.result.outcome) = 401

\* C17 (as claimed): the session counts as authenticated exactly when an
\* access token is stored that the server has not rejected.
C17_AuthenticatedIffTokenStored ==
    isAuthenticated(user) <=> (Truthy(getToken(cookies)) /\ ~Rejected401)

\* C17 (amended): the session counts as authenticated exactly from the task
\* in which GET /users/me, of checkAuth or of login, resolved with a success
\* body, until the task of a logout; nothing else changes it.
C17_AuthenticatedIffProfileLoaded ==
    [][isAuthenticated(user') # isAuthenticated(user) =>
        \/ /\ isAuthenticated(user')
           /\ last'.call = "dispatch"
           /\ last'.id \in {CheckAuthReq, LoginMeReq}
           /\ last'.outcome = "ok"
           /\ settled'.result.kind = "response"
        \/ /\ ~isAuthenticated(user')
           /\ LoggedOut(last')]_vars

C17_Witness ==
    /\ last = Event("dispatch", CheckAuthReq, "ok")
    /\ isAuthenticated(user)
    /\ ~loading
    /\ settled.refreshOutcome = "ok"

\* --------------------------------------------------------------- C16, C19
\* C16: for all token values a and r, what is read back right after
\* setToken(a) and setRefreshToken(r) is a and r, and writing one slot
\* leaves the other as it was.
C16_StoreRoundTrip ==
    /\ ret.fn = "setToken" => ret.value = <<ret.arg, ret.held[2]>>
    /\ ret.fn = "setRefreshToken" => ret.value = <<ret.held[1], ret.arg>>
    /\ ret.fn = "setBoth" => ret.value = ret.arg

C16_Witness ==
    /\ ret.fn = "setRefreshToken"
    /\ ret.arg = RefreshTokenOf(2)
    /\ ret.held = <<AccessTokenOf(1), RefreshTokenOf(1)>>
    /\ ret.value = <<AccessTokenOf(1), RefreshTokenOf(2)>>

\* C19 (as claimed): the two tokens are stored under two distinct names, and
\* the access-token slot is written with a strictly shorter expiry than the
\* refresh-token slot.
C19_AccessSlotExpiresSooner ==
    /\ TOKEN_KEY # REFRESH_TOKEN_KEY
    /\ (Truthy(getToken(cookies)) /\ Truthy(getRefreshToken(cookies))) =>
        cookies[TOKEN_KEY].expires < cookies[REFRESH_TOKEN_KEY].expires

\* --------------------------------------------------------------------- C20
\* The strings that name no particular failure.
GenericStrings ==
    {Str("An error occurred"), Str("An unexpected error occurred"), LoginFallback}
        \cup PageFallbacks

Attached == IF Truthy(getToken(cookies)) THEN Bearer(getToken(cookies)) ELSE NoHeader

\* C18 (as claimed): a backend call of a page goes through the pipeline:
\* when it is put on the wire it carries what the request interceptor
\* attaches from the credential store, and its 401, with a refresh token
\* stored, leaves it waiting for a refresh.
C18_EveryCallThroughPipeline ==
    /\ \A r \in PageReqs :
        last = Event("page", r, "none") => req[r].carried = Attached
    /\ (last.call \in CategoriesCallers /\ categories.pc = "sent") =>
        categories.Authorization = Attached
    /\ \A r \in PageReqs :
        (last = Event("dispatch", r, "http401") /\ settled.pc # "done") =>
            req[r].pc = "refreshing"
    /\ (last = Event("fetch", <<"categories", 0>>, "http401")
            /\ Truthy(getRefreshToken(cookies))) =>
        categories.pc = "refreshing"

\* ---------------------------------------------------------------- C21..C26
\* C21: a 401 of a request that carries X-Retry is handed to the caller as
\* it is: no refresh call, no redispatch, no navigation, and the pipeline
\* leaves the stored tokens alone (checkAuth, as the caller, removes them
\* itself in the same task).
C21_Retried401PassesThrough ==
    [][\A r \in Reqs :
        (req[r].pc = "sent" /\ req[r].XRetry /\ last' = Event("dispatch", r, "http401")) =>
            /\ req'[r].pc = "done"
            /\ settled'.result = DispatchError(2, "http401")
            /\ settled'.dispatches = 2
            /\ settled'.refreshes = 1
            /\ settled'.refreshBody = Undefined
            /\ ~settled'.redirected
            /\ location' = location
            /\ nextPair' = nextPair
            /\ Owner(r) # "checkAuth" => cookies' = cookies
            /\ \A q \in Reqs \ {r} : req'[q] = req[q]]_vars

C21_Witness ==
    /\ \E r \in PageReqs : last = Event("dispatch", r, "http401")
    /\ settled.result = DispatchError(2, "http401")
    /\ settled.XRetry
    /\ cookies = JarOf(nextPair - 1)
    /\ location = "/"

\* C22: the handler of a rejected refresh call empties both slots and
\* issues the redirect whatever is stored: also when another request's
\* refresh has stored a new pair in the meantime.
C22_RejectedRefreshResetsUnconditionally ==
    [][\A r \in Reqs, o \in {"http401", "network", "noData"} :
        (req[r].pc = "refreshing" /\ last' = Event("refresh", r, o)) =>
            /\ cookies' = EmptyJar
            /\ location' = "/login"
            /\ settled'.redirected
            /\ settled'.result = RefreshError(o)]_vars

C22_Witness ==
    \E r \in Reqs, q \in Reqs \ {LoginPostReq, LoginMeReq} :
        /\ r # q
        /\ last = Event("refresh", r, "http401")
        /\ StoreEmpty
        /\ location = "/login"
        /\ loginPc = "idle"
        /\ nextPair = 3
        /\ req[q].pc = "sent"
        /\ req[q].XRetry
        /\ req[q].carried = Bearer(AccessTokenOf(2))

\* C23: checkAuth removes the stored tokens whenever its GET /users/me does
\* not end in a success body, whatever the failure; the pipeline issues a
\* redirect only for a failed refresh.  (That this deletes the tokens of a
\* login that completed meanwhile is C23_Witness.)
C23_CheckAuthRemovesOnAnyFailure ==
    (last.call \in {"dispatch", "refresh"} /\ last.id = CheckAuthReq
        /\ req[CheckAuthReq].pc = "done") =>
        /\ authPc = "done"
        /\ ~loading
        /\ settled.pc = "done"
        /\ ~(settled.result.kind = "response" /\ BodySuccess(settled.result.outcome)) =>
            StoreEmpty
        /\ (settled.result.kind = "error" /\ settled.result.call = "dispatch"
                /\ Status(settled.result.outcome) # 401) => ~settled.redirected

C23_Witness ==
    /\ last = Event("dispatch", CheckAuthReq, "network")
    /\ loginPc = "resolved"
    /\ isAuthenticated(user)
    /\ StoreEmpty
    /\ location = "/"
    /\ ~settled.redirected
    /\ nextPair = 3

\* C24: once checkAuth waits for GET /users/me, loading becomes false when
\* the call settles, on every path; loading is false exactly when checkAuth
\* has ended; with no access token stored checkAuth sends nothing and
\* leaves user and the store as they are.
C24_LoadingEnds ==
    /\ (authPc = "waiting") ~> (~loading)
    /\ [](loading <=> authPc # "done")
    /\ [](authPc = "waiting" <=> InFlight(CheckAuthReq))
    /\ [][(authPc = "mount" /\ ~Truthy(getToken(cookies)) /\ last'.call = "checkAuth") =>
            /\ ~loading'
            /\ user' = "null"
            /\ cookies' = cookies
            /\ req' = req]_vars

C24_Witness ==
    /\ last = Event("refresh", CheckAuthReq, "notSuccess")
    /\ ~loading
    /\ authPc = "done"
    /\ user = "null"

\* C25: a 401 of POST /admin/auth/login goes through the same rejected
\* handler: with no refresh token stored the slots are cleared, the
\* redirect is issued and login() rejects with that 401; with one stored a
\* refresh call is made, and when it succeeds the new pair is stored and
\* the POST is sent once more.
C25_Login401IsRefreshed ==
    [][/\ (req[LoginPostReq].pc = "sent" /\ ~req[LoginPostReq].XRetry
            /\ last' = Event("dispatch", LoginPostReq, "http401")) =>
            IF Truthy(getRefreshToken(cookies))
            THEN /\ req'[LoginPostReq].pc = "refreshing"
                 /\ req'[LoginPostReq].refreshBody = getRefreshToken(cookies)
                 /\ loginPc' = "posting"
                 /\ cookies' = cookies
            ELSE /\ cookies' = EmptyJar
                 /\ location' = "/login"
                 /\ settled'.redirected
                 /\ settled'.result = DispatchError(1, "http401")
                 /\ loginPc' = "rejected"
       /\ (req[LoginPostReq].pc = "refreshing" /\ last' = Event("refresh", LoginPostReq, "ok")) =>
            /\ cookies' = JarOf(nextPair)
            /\ req'[LoginPostReq].pc = "sent"
            /\ req'[LoginPostReq].dispatches = 2
            /\ req'[LoginPostReq].XRetry
            /\ req'[LoginPostReq].carried = Bearer(AccessTokenOf(nextPair))
            /\ loginPc' = "posting"]_vars

C25_Witness ==
    /\ last = Event("refresh", LoginPostReq, "ok")
    /\ req[LoginPostReq].pc = "sent"
    /\ req[LoginPostReq].dispatches = 2
    /\ cookies = JarOf(nextPair - 1)

\* C26: when /users/me of a login fails with anything but a 401, login()
\* rejects and nothing is rolled back: the stored tokens, user and the
\* location stay as they were; when the login response is 2xx with
\* success=false, login() resolves and stores nothing, navigates nowhere
\* and sends no /users/me.
C26_LoginHasNoRollback ==
    [][/\ \A o \in {"http500", "network", "timeout"} :
            (req[LoginMeReq].pc = "sent" /\ last' = Event("dispatch", LoginMeReq, o)) =>
                /\ loginPc' = "rejected"
                /\ settled'.result = DispatchError(req[LoginMeReq].dispatches, o)
                /\ cookies' = cookies
                /\ user' = user
                /\ location' = location
       /\ (req[LoginPostReq].pc = "sent" /\ last' = Event("dispatch", LoginPostReq, "okFalse")) =>
                /\ loginPc' = "resolved"
                /\ settled'.result.kind = "response"
                /\ cookies' = cookies
                /\ user' = user
                /\ location' = location
                /\ req'[LoginMeReq] = NewRequest]_vars

C26_Witness ==
    /\ last = Event("dispatch", LoginMeReq, "http500")
    /\ loginPc = "rejected"
    /\ cookies = JarOf(nextPair - 1)
    /\ nextPair = 3
    /\ user = "null"
    /\ settled.dispatches = 1

\* C27: while a status update of a post is in flight, the status button of
\* that post is disabled, however the updates of several posts interleave.
Updating(post) == \E u \in list.updates : u.id = post
C27_StatusDisabledWhileInFlight ==
    \A post \in Posts : Updating(post) => StatusDisabled(list, post)

\* C28: once every list request has settled, the page shows the response to
\* the most recently issued query, in whatever order the responses arrived.
C28_ShowsLatestQuery ==
    (list.inflight = {} /\ list.latestOk) => list.shown = list.latest

\* C29: the page number stays between 1 and totalPages.
C29_PageWithinTotal ==
    1 <= list.page /\ list.page <= list.totalPages

====
